---- MODULE Spec2Model ----
(***************************************************************************)
(* Model of src/lib/src/global_shortcuts.py: the GlobalShortcuts           *)
(* controller, the IPC threads it spawns (_dbus_loop_thread), the          *)
(* DictationService each of them publishes, and the handler threads        *)
(* started by DictationService.Trigger.                                    *)
(*                                                                         *)
(* One controlling thread calls start / stop / set_callback /              *)
(* update_shortcut; its position in the current call is mpc.  Each         *)
(* statement that reads or writes a field shared with another thread is a  *)
(* step of its own, so every interleaving of the controlling thread with   *)
(* the IPC threads is a behaviour of the model.                            *)
(***************************************************************************)
EXTENDS Integers, FiniteSets, Sequences, TLC

\* ---- bounds -----------------------------------------------------------
MaxThreads == 2      \* start() calls that get as far as creating a Thread
MaxTriggers == 2     \* Trigger() calls processed over the whole run
MaxCalls == 4        \* calls made by the controlling thread over the whole run
MaxFairCalls == 3    \* ... over a run of the fairly scheduled specification

\* ---- values -----------------------------------------------------------
None == "None"
Handlers == {"h1", "h2"}
Keys == {"<f12>", "SUPER+D"}
Threads == 1..MaxThreads
NoThread == 0

VARIABLES
  primary_key,      \* GlobalShortcuts.primary_key
  callback,         \* GlobalShortcuts.callback
  dbus_service,     \* GlobalShortcuts.dbus_service: id of a DictationService, or NoThread
  dbus_loop,        \* GlobalShortcuts.dbus_loop: id of a GLib.MainLoop, or NoThread
  listener_thread,  \* GlobalShortcuts.listener_thread: id of a Thread, or NoThread
  is_running,       \* GlobalShortcuts.is_running
  mpc,              \* position of the controlling thread
  arg,              \* argument of the call in progress
  lastOp,           \* the call that returned last
  lastRet,          \* its return value: "True", "False", "None"
  tpc,              \* position of each IPC thread
  handler,          \* DictationService.handler of the service built by thread t
  published,        \* bus.publish succeeded for the service of thread t
  loopFlag,         \* is_running flag of the GLib.MainLoop created by thread t
  nThreads,         \* Thread objects created by start()
  nCalls,           \* calls made by the controlling thread
  nTrig,            \* Trigger() calls processed
  nTrigReg,         \* ... of which found a handler registered
  nStarted,         \* handler threads started
  nRunning,         \* handler threads that have not finished
  lastInv,          \* <<expected, invoked>> of the handler thread started last
  trigExpect,       \* handler a Trigger in progress on thread t is due to invoke
  cbSettled,        \* handler of the last set_callback that returned on a running controller
  entryRunning,     \* is_running when the call in progress (or last returned) was made
  startOK,          \* some start() has returned True
  stopCalled,       \* some stop() has been called
  stopFault,        \* the stop() in progress (or last returned) hit its except clause
  spawnFail,        \* the start() in progress (or last returned) failed to spawn
  scDone,           \* some set_callback has been called
  due,              \* for thread t: "set" / "init" while no set_callback was called since
                    \* the start() that created t (callback then came from set_callback /
                    \* from the constructor), "none" otherwise
  dirty,            \* some stop() returned without having seen its IPC thread ended
  lastBy            \* the IPC thread whose Trigger() started the last handler thread

ctrl == <<primary_key, callback, dbus_service, dbus_loop, listener_thread, is_running>>
main == <<mpc, arg, lastOp, lastRet, nCalls>>
ipc == <<tpc, handler, published, loopFlag, nThreads>>
work == <<nTrig, nTrigReg, nStarted, nRunning, lastInv, trigExpect>>
hist == <<cbSettled, entryRunning, startOK, stopCalled, stopFault, spawnFail>>
hist2 == <<scDone, due, dirty, lastBy>>
vars == <<ctrl, main, ipc, work, hist, hist2>>

\* ---- thread liveness ---------------------------------------------------
\* threading.Thread.is_alive(): started and not yet returned from its target
StartupPcs == {"l51", "l52a", "l52b", "l54", "l56", "l58"}
LoopPcs == {"loop", "t28"}
Alive(t) == t # NoThread /\ tpc[t] \in StartupPcs \cup LoopPcs \cup {"l63"}
Failed(t) == t # NoThread /\ tpc[t] \in {"l63", "dead_failed"}

\* GlobalShortcuts.is_active
is_active == is_running /\ listener_thread # NoThread /\ Alive(listener_thread)

\* GlobalShortcuts.get_status
get_status == [is_running |-> is_running, is_active |-> is_active,
               primary_key |-> primary_key, method |-> "dbus"]

\* ---- initial state: GlobalShortcuts.__init__ ---------------------------
Init ==
  /\ primary_key = "<f12>"
  /\ callback \in {None, "h1"}
  /\ dbus_service = NoThread
  /\ dbus_loop = NoThread
  /\ listener_thread = NoThread
  /\ is_running = FALSE
  /\ mpc = "idle" /\ arg = None /\ lastOp = None /\ lastRet = None
  /\ tpc = [t \in Threads |-> "unborn"]
  /\ handler = [t \in Threads |-> None]
  /\ published = [t \in Threads |-> FALSE]
  /\ loopFlag = [t \in Threads |-> FALSE]
  /\ nThreads = 0 /\ nCalls = 0
  /\ nTrig = 0 /\ nTrigReg = 0 /\ nStarted = 0 /\ nRunning = 0
  /\ lastInv = <<None, None>>
  /\ trigExpect = [t \in Threads |-> None]
  /\ cbSettled = None
  /\ entryRunning = FALSE /\ startOK = FALSE /\ stopCalled = FALSE
  /\ stopFault = FALSE /\ spawnFail = FALSE
  /\ scDone = FALSE /\ dirty = FALSE /\ lastBy = NoThread
  /\ due = [t \in Threads |-> "none"]

\* a call returns to the controlling thread's caller
Return(op, r) ==
  mpc' = "idle" /\ lastOp' = op /\ lastRet' = r /\ arg' = None /\ UNCHANGED nCalls

\* ---- GlobalShortcuts.start ---------------------------------------------
\* a call is made: the controlling thread is between two calls
Call == mpc = "idle" /\ nCalls < MaxCalls /\ nCalls' = nCalls + 1

\* start() that does not test is_running
Start67NoGuard ==
  /\ Call /\ nThreads < MaxThreads
  /\ entryRunning' = is_running /\ spawnFail' = FALSE
  /\ mpc' = "start71"
  /\ UNCHANGED <<ctrl, arg, lastOp, lastRet, ipc, work, cbSettled, startOK, stopCalled, stopFault>>
  /\ UNCHANGED hist2

\* start() is called; lines 67-68: if self.is_running: return True
Start67 ==
  /\ Call /\ nThreads < MaxThreads
  /\ entryRunning' = is_running /\ spawnFail' = FALSE
  /\ IF is_running
       THEN /\ mpc' = "idle" /\ lastOp' = "start" /\ lastRet' = "True"
            /\ startOK' = TRUE
       ELSE mpc' = "start71" /\ UNCHANGED <<lastOp, lastRet, startOK>>
  /\ UNCHANGED <<ctrl, arg, ipc, work, cbSettled, stopCalled, stopFault>>
  /\ UNCHANGED hist2

\* start() whose except clause returns True
Start71RetTrue(ok) ==
  /\ mpc = "start71"
  /\ nThreads' = nThreads + 1
  /\ listener_thread' = nThreads + 1
  /\ tpc' = [tpc EXCEPT ![nThreads + 1] = IF ok THEN "l51" ELSE "new"]
  /\ IF ok
       THEN mpc' = "start73" /\ UNCHANGED <<arg, lastOp, lastRet, nCalls, spawnFail>>
       ELSE Return("start", "True") /\ spawnFail' = TRUE
  /\ UNCHANGED <<primary_key, callback, dbus_service, dbus_loop, is_running,
                 handler, published, loopFlag, work,
                 cbSettled, entryRunning, startOK, stopCalled, stopFault>>
  /\ due' = [due EXCEPT ![nThreads + 1] = IF scDone THEN "set" ELSE "init"]
  /\ UNCHANGED <<scDone, dirty, lastBy>>

\* start() that carries on to line 73 although Thread.start() raised
Start71Swallow(ok) ==
  /\ mpc = "start71"
  /\ nThreads' = nThreads + 1
  /\ listener_thread' = nThreads + 1
  /\ tpc' = [tpc EXCEPT ![nThreads + 1] = IF ok THEN "l51" ELSE "new"]
  /\ mpc' = "start73"
  /\ spawnFail' = ~ok
  /\ UNCHANGED <<primary_key, callback, dbus_service, dbus_loop, is_running,
                 arg, lastOp, lastRet, nCalls, handler, published, loopFlag, work,
                 cbSettled, entryRunning, startOK, stopCalled, stopFault>>
  /\ due' = [due EXCEPT ![nThreads + 1] = IF scDone THEN "set" ELSE "init"]
  /\ UNCHANGED <<scDone, dirty, lastBy>>

\* lines 71-72: the Thread object is stored in listener_thread, then started;
\* Thread.start() raising is caught at line 78 and start() returns False
Start71(ok) ==
  /\ mpc = "start71"
  /\ nThreads' = nThreads + 1
  /\ listener_thread' = nThreads + 1
  /\ IF ok
       THEN /\ tpc' = [tpc EXCEPT ![nThreads + 1] = "l51"]
            /\ mpc' = "start73"
            /\ UNCHANGED <<arg, lastOp, lastRet, nCalls, spawnFail>>
       ELSE /\ tpc' = [tpc EXCEPT ![nThreads + 1] = "new"]
            /\ Return("start", "False")
            /\ spawnFail' = TRUE
  /\ UNCHANGED <<primary_key, callback, dbus_service, dbus_loop, is_running,
                 handler, published, loopFlag, work,
                 cbSettled, entryRunning, startOK, stopCalled, stopFault>>
  /\ due' = [due EXCEPT ![nThreads + 1] = IF scDone THEN "set" ELSE "init"]
  /\ UNCHANGED <<scDone, dirty, lastBy>>

\* line 73: self.is_running = True
Start73 ==
  /\ mpc = "start73"
  /\ is_running' = TRUE
  /\ mpc' = "start76"
  /\ UNCHANGED <<primary_key, callback, dbus_service, dbus_loop, listener_thread,
                 arg, lastOp, lastRet, nCalls, ipc, work, hist>>
  /\ UNCHANGED hist2

\* lines 75-76: print(...); return True
Start76 ==
  /\ mpc = "start76"
  /\ Return("start", "True") /\ startOK' = TRUE
  /\ UNCHANGED <<ctrl, ipc, work, cbSettled, entryRunning, stopCalled, stopFault, spawnFail>>
  /\ UNCHANGED hist2

\* ---- GlobalShortcuts._dbus_loop_thread ---------------------------------
\* line 51: bus = SessionBus(); a failure to connect is caught at line 59
Ipc51(t, ok) ==
  /\ tpc[t] = "l51"
  /\ tpc' = [tpc EXCEPT ![t] = IF ok THEN "l52a" ELSE "l63"]
  /\ UNCHANGED <<ctrl, main, handler, published, loopFlag, nThreads, work, hist>>
  /\ UNCHANGED hist2

\* a thread that gives up when the controller already holds a service
Ipc52aOnce(t) ==
  /\ tpc[t] = "l52a"
  /\ IF dbus_service # NoThread
       THEN tpc' = [tpc EXCEPT ![t] = "dead"] /\ UNCHANGED handler
       ELSE /\ handler' = [handler EXCEPT ![t] = callback]
            /\ tpc' = [tpc EXCEPT ![t] = "l52b"]
  /\ UNCHANGED <<ctrl, main, published, loopFlag, nThreads, work, hist>>
  /\ UNCHANGED hist2

\* a service built without the controller's callback
Ipc52aNoHandler(t) ==
  /\ tpc[t] = "l52a"
  /\ handler' = [handler EXCEPT ![t] = IF callback = None THEN None ELSE "h1"]
  /\ tpc' = [tpc EXCEPT ![t] = "l52b"]
  /\ UNCHANGED <<ctrl, main, published, loopFlag, nThreads, work, hist>>
  /\ UNCHANGED hist2

\* line 52, right-hand side: DictationService(self.callback) reads the
\* callback field and builds the service (DictationService.__init__, line 22)
Ipc52a(t) ==
  /\ tpc[t] = "l52a"
  /\ handler' = [handler EXCEPT ![t] = callback]
  /\ tpc' = [tpc EXCEPT ![t] = "l52b"]
  /\ UNCHANGED <<ctrl, main, published, loopFlag, nThreads, work, hist>>
  /\ UNCHANGED hist2

\* line 52, assignment: self.dbus_service = <the service just built>
Ipc52b(t) ==
  /\ tpc[t] = "l52b"
  /\ dbus_service' = t
  /\ tpc' = [tpc EXCEPT ![t] = "l54"]
  /\ UNCHANGED <<primary_key, callback, dbus_loop, listener_thread, is_running,
                 main, handler, published, loopFlag, nThreads, work, hist>>
  /\ UNCHANGED hist2

\* line 54: bus.publish(...); a failure to publish is caught at line 59
Ipc54(t, ok) ==
  /\ tpc[t] = "l54"
  /\ published' = [published EXCEPT ![t] = ok]
  /\ tpc' = [tpc EXCEPT ![t] = IF ok THEN "l56" ELSE "l63"]
  /\ UNCHANGED <<ctrl, main, handler, loopFlag, nThreads, work, hist>>
  /\ UNCHANGED hist2

\* line 56: self.dbus_loop = GLib.MainLoop(); a new loop is not running
Ipc56(t) ==
  /\ tpc[t] = "l56"
  /\ dbus_loop' = t
  /\ loopFlag' = [loopFlag EXCEPT ![t] = FALSE]
  /\ tpc' = [tpc EXCEPT ![t] = "l58"]
  /\ UNCHANGED <<primary_key, callback, dbus_service, listener_thread, is_running,
                 main, handler, published, nThreads, work, hist>>
  /\ UNCHANGED hist2

\* line 58: self.dbus_loop.run() is entered: g_main_loop_run marks the loop
\* running, whatever quit() did before, and iterates while it is marked
Ipc58(t) ==
  /\ tpc[t] = "l58"
  /\ loopFlag' = [loopFlag EXCEPT ![t] = TRUE]
  /\ tpc' = [tpc EXCEPT ![t] = "loop"]
  /\ UNCHANGED <<ctrl, main, handler, published, nThreads, work, hist>>
  /\ UNCHANGED hist2

\* a loop whose run() returns without quit() having been called
IpcLoopExitSpurious(t) ==
  /\ tpc[t] = "loop"
  /\ tpc' = [tpc EXCEPT ![t] = "dead"]
  /\ UNCHANGED <<ctrl, main, handler, published, loopFlag, nThreads, work, hist>>
  /\ UNCHANGED hist2

\* line 58: run() returns once the loop has been told to quit; the thread ends
IpcLoopExit(t) ==
  /\ tpc[t] = "loop" /\ ~loopFlag[t]
  /\ tpc' = [tpc EXCEPT ![t] = "dead"]
  /\ UNCHANGED <<ctrl, main, handler, published, loopFlag, nThreads, work, hist>>
  /\ UNCHANGED hist2

\* lines 59-63: except Exception: ...; self.is_running = False; the thread ends
Ipc63(t) ==
  /\ tpc[t] = "l63"
  /\ is_running' = FALSE
  /\ tpc' = [tpc EXCEPT ![t] = "dead_failed"]
  /\ UNCHANGED <<primary_key, callback, dbus_service, dbus_loop, listener_thread,
                 main, handler, published, loopFlag, nThreads, work, hist>>
  /\ UNCHANGED hist2

\* ---- DictationService.Trigger, dispatched by the loop of thread t ------
\* Trigger that starts a thread whether or not a handler is registered
TriggerCheckNoGuard(t) ==
  /\ tpc[t] = "loop" /\ loopFlag[t] /\ published[t]
  /\ nTrig < MaxTriggers
  /\ nTrig' = nTrig + 1
  /\ tpc' = [tpc EXCEPT ![t] = "t28"]
  /\ nTrigReg' = nTrigReg + 1
  /\ trigExpect' = [trigExpect EXCEPT ![t] =
                      IF cbSettled \in Handlers THEN cbSettled ELSE None]
  /\ UNCHANGED <<ctrl, main, handler, published, loopFlag, nThreads,
                 nStarted, nRunning, lastInv, hist>>
  /\ UNCHANGED hist2

\* lines 25-26: print(...); if self.handler:
TriggerCheck(t) ==
  /\ tpc[t] = "loop" /\ loopFlag[t] /\ published[t]
  /\ nTrig < MaxTriggers
  /\ nTrig' = nTrig + 1
  /\ IF handler[t] # None
       THEN /\ tpc' = [tpc EXCEPT ![t] = "t28"]
            /\ nTrigReg' = nTrigReg + 1
            /\ trigExpect' = [trigExpect EXCEPT ![t] =
                                IF cbSettled \in Handlers THEN cbSettled ELSE None]
       ELSE UNCHANGED <<tpc, nTrigReg, trigExpect>>
  /\ UNCHANGED <<ctrl, main, handler, published, loopFlag, nThreads,
                 nStarted, nRunning, lastInv, hist>>
  /\ UNCHANGED hist2

\* Trigger that starts no thread while an earlier handler is still running
TriggerSpawnCoalesce(t) ==
  /\ tpc[t] = "t28"
  /\ IF nRunning > 0
       THEN UNCHANGED <<nStarted, nRunning, lastInv>>
       ELSE /\ nStarted' = nStarted + 1
            /\ nRunning' = nRunning + 1
            /\ lastInv' = <<IF trigExpect[t] = cbSettled THEN trigExpect[t] ELSE None, handler[t]>>
  /\ trigExpect' = [trigExpect EXCEPT ![t] = None]
  /\ tpc' = [tpc EXCEPT ![t] = "loop"]
  /\ UNCHANGED <<ctrl, main, handler, published, loopFlag, nThreads, nTrig, nTrigReg, hist>>
  /\ lastBy' = IF nRunning > 0 THEN lastBy ELSE t
  /\ UNCHANGED <<scDone, due, dirty>>

\* Trigger that calls the handler itself, on the IPC thread
TriggerSpawnInline(t) ==
  /\ tpc[t] = "t28"
  /\ nStarted' = nStarted + 1
  /\ nRunning' = nRunning + 1
  /\ lastInv' = <<IF trigExpect[t] = cbSettled THEN trigExpect[t] ELSE None, handler[t]>>
  /\ trigExpect' = [trigExpect EXCEPT ![t] = None]
  /\ tpc' = [tpc EXCEPT ![t] = "in_handler"]
  /\ UNCHANGED <<ctrl, main, handler, published, loopFlag, nThreads, nTrig, nTrigReg, hist>>
  /\ lastBy' = t
  /\ UNCHANGED <<scDone, due, dirty>>

\* lines 28-29: threading.Thread(target=self.handler, daemon=True).start();
\* Trigger returns to the loop without joining the thread
TriggerSpawn(t) ==
  /\ tpc[t] = "t28"
  /\ nStarted' = nStarted + 1
  /\ nRunning' = nRunning + 1
  /\ lastInv' = <<IF trigExpect[t] = cbSettled THEN trigExpect[t] ELSE None, handler[t]>>
  /\ trigExpect' = [trigExpect EXCEPT ![t] = None]
  /\ tpc' = [tpc EXCEPT ![t] = "loop"]
  /\ UNCHANGED <<ctrl, main, handler, published, loopFlag, nThreads, nTrig, nTrigReg, hist>>
  /\ lastBy' = t
  /\ UNCHANGED <<scDone, due, dirty>>

\* a handler thread returns from the handler; one that never does stays running
HandlerFinish ==
  /\ nRunning > 0
  /\ nRunning' = nRunning - 1
  /\ UNCHANGED <<ctrl, main, ipc, nTrig, nTrigReg, nStarted, lastInv, trigExpect, hist>>
  /\ UNCHANGED hist2

\* ---- GlobalShortcuts.stop ----------------------------------------------
\* stop() that does not test is_running
Stop84NoGuard ==
  /\ Call
  /\ entryRunning' = is_running
  /\ stopCalled' = TRUE /\ stopFault' = FALSE /\ cbSettled' = None
  /\ mpc' = "stop88" /\ UNCHANGED <<lastOp, lastRet>>
  /\ UNCHANGED <<ctrl, arg, ipc, work, startOK, spawnFail>>
  /\ UNCHANGED hist2

\* stop() is called; lines 84-85: if not self.is_running: return
Stop84 ==
  /\ Call
  /\ entryRunning' = is_running
  /\ stopCalled' = TRUE /\ stopFault' = FALSE /\ cbSettled' = None
  /\ IF ~is_running
       THEN mpc' = "idle" /\ lastOp' = "stop" /\ lastRet' = "None"
       ELSE mpc' = "stop88" /\ UNCHANGED <<lastOp, lastRet>>
  /\ UNCHANGED <<ctrl, arg, ipc, work, startOK, spawnFail>>
  /\ UNCHANGED hist2

\* line 88: if self.dbus_loop:
Stop88 ==
  /\ mpc = "stop88"
  /\ mpc' = IF dbus_loop # NoThread THEN "stop89" ELSE "stop91"
  /\ UNCHANGED <<ctrl, arg, lastOp, lastRet, nCalls, ipc, work, hist>>
  /\ UNCHANGED hist2

\* line 89: self.dbus_loop.quit() marks the loop not running; a fault is
\* caught at line 97, which prints and falls off the end of stop()
Stop89(ok) ==
  /\ mpc = "stop89"
  /\ IF ok
       THEN /\ loopFlag' = [loopFlag EXCEPT ![dbus_loop] = FALSE]
            /\ mpc' = "stop91"
            /\ UNCHANGED <<arg, lastOp, lastRet, nCalls, stopFault>>
       ELSE /\ Return("stop", "None")
            /\ stopFault' = TRUE
            /\ UNCHANGED loopFlag
  /\ UNCHANGED <<ctrl, tpc, handler, published, nThreads, work,
                 cbSettled, entryRunning, startOK, stopCalled, spawnFail>>
  /\ dirty' = (dirty \/ ~ok)
  /\ UNCHANGED <<scDone, due, lastBy>>

\* line 91: if self.listener_thread and self.listener_thread.is_alive():
Stop91 ==
  /\ mpc = "stop91"
  /\ mpc' = IF Alive(listener_thread) THEN "stop92" ELSE "stop94"
  /\ UNCHANGED <<ctrl, arg, lastOp, lastRet, nCalls, ipc, work, hist>>
  /\ UNCHANGED hist2

\* line 92: self.listener_thread.join(timeout=1.0) returns when the thread
\* has ended or when the timeout has elapsed; a fault is caught at line 97
JoinOutcomes == {"joined", "timeout", "fault"}
Stop92(o) ==
  /\ mpc = "stop92"
  /\ o = "joined" => ~Alive(listener_thread)
  /\ IF o = "fault"
       THEN Return("stop", "None") /\ stopFault' = TRUE
       ELSE mpc' = "stop94" /\ UNCHANGED <<arg, lastOp, lastRet, nCalls, stopFault>>
  /\ UNCHANGED <<ctrl, ipc, work, cbSettled, entryRunning, startOK, stopCalled, spawnFail>>
  /\ dirty' = (dirty \/ (o # "joined" /\ Alive(listener_thread)))
  /\ UNCHANGED <<scDone, due, lastBy>>

\* lines 94-95: self.is_running = False; print(...); stop() returns
Stop94 ==
  /\ mpc = "stop94"
  /\ is_running' = FALSE
  /\ Return("stop", "None")
  /\ UNCHANGED <<primary_key, callback, dbus_service, dbus_loop, listener_thread,
                 ipc, work, hist>>
  /\ UNCHANGED hist2

\* ---- GlobalShortcuts.set_callback --------------------------------------
\* set_callback(h) is called; line 106: self.callback = callback
Sc106(h) ==
  /\ Call
  /\ arg' = h
  /\ callback' = h
  /\ mpc' = "sc107"
  /\ cbSettled' = IF startOK /\ ~stopCalled THEN "pending" ELSE None
  /\ UNCHANGED <<primary_key, dbus_service, dbus_loop, listener_thread, is_running,
                 lastOp, lastRet, ipc, work,
                 entryRunning, startOK, stopCalled, stopFault, spawnFail>>
  /\ scDone' = TRUE
  /\ due' = [t \in Threads |-> "none"]
  /\ UNCHANGED <<dirty, lastBy>>

\* line 107: if self.dbus_service:
Sc107 ==
  /\ mpc = "sc107"
  /\ IF dbus_service # NoThread
       THEN mpc' = "sc108" /\ UNCHANGED <<arg, lastOp, lastRet, nCalls, cbSettled>>
       ELSE /\ Return("set_callback", "None")
            /\ cbSettled' = IF cbSettled = "pending" THEN arg ELSE None
  /\ UNCHANGED <<ctrl, ipc, work, entryRunning, startOK, stopCalled, stopFault, spawnFail>>
  /\ UNCHANGED hist2

\* line 108: self.dbus_service.handler = callback
Sc108 ==
  /\ mpc = "sc108"
  /\ handler' = [handler EXCEPT ![dbus_service] = arg]
  /\ cbSettled' = IF cbSettled = "pending" THEN arg ELSE None
  /\ Return("set_callback", "None")
  /\ UNCHANGED <<ctrl, tpc, published, loopFlag, nThreads, work,
                 entryRunning, startOK, stopCalled, stopFault, spawnFail>>
  /\ UNCHANGED hist2

\* ---- GlobalShortcuts.update_shortcut -----------------------------------
\* update_shortcut that takes effect only on a stopped controller
update_shortcutStopped(k) ==
  /\ Call
  /\ primary_key' = IF is_running THEN primary_key ELSE k
  /\ mpc' = "idle" /\ lastOp' = "update_shortcut" /\ arg' = None
  /\ lastRet' = IF is_running THEN "False" ELSE "True"
  /\ UNCHANGED <<callback, dbus_service, dbus_loop, listener_thread, is_running,
                 ipc, work, hist>>
  /\ UNCHANGED hist2

\* lines 112-115: self.primary_key = new_key; ...; return True
update_shortcut(k) ==
  /\ Call
  /\ primary_key' = k
  /\ mpc' = "idle" /\ lastOp' = "update_shortcut" /\ lastRet' = "True" /\ arg' = None
  /\ UNCHANGED <<callback, dbus_service, dbus_loop, listener_thread, is_running,
                 ipc, work, hist>>
  /\ UNCHANGED hist2

\* ---- next-state relation -----------------------------------------------
Next ==
  \/ Start67 \/ (\E ok \in BOOLEAN : Start71(ok)) \/ Start73 \/ Start76
  \/ Stop84 \/ Stop88 \/ (\E ok \in BOOLEAN : Stop89(ok)) \/ Stop91
  \/ (\E o \in JoinOutcomes : Stop92(o)) \/ Stop94
  \/ (\E h \in Handlers : Sc106(h)) \/ Sc107 \/ Sc108
  \/ (\E k \in Keys : update_shortcut(k))
  \/ (\E t \in Threads, ok \in BOOLEAN : Ipc51(t, ok))
  \/ (\E t \in Threads : Ipc52a(t))
  \/ (\E t \in Threads : Ipc52b(t))
  \/ (\E t \in Threads, ok \in BOOLEAN : Ipc54(t, ok))
  \/ (\E t \in Threads : Ipc56(t))
  \/ (\E t \in Threads : Ipc58(t))
  \/ (\E t \in Threads : IpcLoopExit(t))
  \/ (\E t \in Threads : Ipc63(t))
  \/ (\E t \in Threads : TriggerCheck(t))
  \/ (\E t \in Threads : TriggerSpawn(t))
  \/ HandlerFinish

Spec == Init /\ [][Next]_vars

\* ---- scheduling --------------------------------------------------------
\* a call that has begun runs to its end: every statement of start, stop and
\* set_callback after the first is eventually executed (join has a timeout)
MainStep ==
  \/ (\E ok \in BOOLEAN : Start71(ok)) \/ Start73 \/ Start76
  \/ Stop88 \/ (\E ok \in BOOLEAN : Stop89(ok)) \/ Stop91
  \/ (\E o \in JoinOutcomes : Stop92(o)) \/ Stop94
  \/ Sc107 \/ Sc108

\* a started IPC thread keeps running: every statement of _dbus_loop_thread
\* and of a Trigger() under way is eventually executed; when a Trigger()
\* arrives is up to the external caller
IpcStep(t) ==
  \/ (\E ok \in BOOLEAN : Ipc51(t, ok)) \/ Ipc52a(t) \/ Ipc52b(t)
  \/ (\E ok \in BOOLEAN : Ipc54(t, ok)) \/ Ipc56(t) \/ Ipc58(t)
  \/ IpcLoopExit(t) \/ Ipc63(t) \/ TriggerSpawn(t)

\* the fairly scheduled system, explored over runs of at most MaxFairCalls calls
FairNext == Next /\ nCalls' <= MaxFairCalls

FairSpec ==
  /\ Init /\ [][FairNext]_vars
  /\ WF_vars(MainStep)
  /\ \A t \in Threads : WF_vars(IpcStep(t))

TypeOK ==
  /\ primary_key \in Keys
  /\ callback \in Handlers \cup {None}
  /\ dbus_service \in Threads \cup {NoThread}
  /\ dbus_loop \in Threads \cup {NoThread}
  /\ listener_thread \in Threads \cup {NoThread}
  /\ is_running \in BOOLEAN
  /\ nThreads \in 0..MaxThreads
  /\ nTrig \in 0..MaxTriggers
  /\ nCalls \in 0..MaxCalls
  /\ nRunning \in 0..nStarted

\* ======================================================================
\* Properties
\* ======================================================================
InTrigger == {t \in Threads : tpc[t] = "t28"}
StopPcs == {"stop88", "stop89", "stop91", "stop92", "stop94"}

\* C1: every Trigger() processed while a handler is registered starts exactly
\* one handler thread: the handler threads started, plus the Trigger() calls
\* that have passed line 26 and not yet reached line 29, always equal the
\* Trigger() calls that found a handler; none is dropped, coalesced or doubled.
C1_OneHandlerPerTrigger == nStarted + Cardinality(InTrigger) = nTrigReg

\* two Trigger() calls have completed, each started a thread, one still runs
C1_Witness == nTrigReg >= 2 /\ nStarted = nTrigReg /\ InTrigger = {} /\ nRunning >= 1

\* C2: Trigger() does not wait for the handler it dispatched: the step that
\* starts the handler thread puts the IPC thread back in its event loop with
\* that handler still running, however many handlers are running already.
C2_TriggerDoesNotWait ==
  [][\A t \in Threads :
       (tpc[t] = "t28" /\ tpc'[t] # "t28")
         => (tpc'[t] = "loop" /\ nRunning' = nRunning + 1)]_vars

\* Trigger() has returned, its handler still runs, and the loop takes another
C2_Witness ==
  /\ nRunning >= 1
  /\ \E t \in Threads : ENABLED TriggerCheck(t)

\* C3: a Trigger() that is processed after set_callback(new) has returned on
\* a running controller (a start() has returned True, no stop() was called, no
\* later set_callback has begun) invokes new.
C3_TriggerInvokesNewHandler == lastInv[1] # None => lastInv[2] = lastInv[1]

\* C4: whenever no set_callback is in progress and the controller's service
\* has been published, the service's handler is the controller's callback.
C4_ServiceHandlerIsCallback ==
  (mpc \notin {"sc107", "sc108"} /\ dbus_service # NoThread /\ published[dbus_service])
    => handler[dbus_service] = callback

\* C5: start() called while is_running is true returns True in that one step
\* and changes no field of the controller, no IPC thread and no publication.
C5_StartWhileRunningNoEffect ==
  [][(Start67 /\ is_running)
       => (mpc' = "idle" /\ lastOp' = "start" /\ lastRet' = "True"
           /\ UNCHANGED <<ctrl, ipc, work>>)]_vars

\* a start() found the controller running and has returned
C5_Witness ==
  mpc = "idle" /\ lastOp = "start" /\ entryRunning /\ lastRet = "True" /\ nThreads = 1

\* C6: once a stop() that found the controller running has returned,
\* is_running is false and is_active() is false.
C6_StopClearsRunning ==
  (mpc = "idle" /\ lastOp = "stop" /\ entryRunning) => (~is_running /\ ~is_active)

\* C7: once a stop() in which quit() or join() faulted has returned,
\* is_running is false.
C7_FaultedStopClearsRunning ==
  (mpc = "idle" /\ lastOp = "stop" /\ stopFault) => ~is_running

\* C8: with no stop() call, once a start() of a stopped controller has
\* returned True and the IPC thread it spawned has failed and exited,
\* is_running is false and is_active() is false.
C8_FailedThreadClearsRunning ==
  (/\ ~stopCalled /\ mpc = "idle" /\ lastOp = "start" /\ lastRet = "True"
   /\ ~entryRunning /\ listener_thread # NoThread
   /\ tpc[listener_thread] = "dead_failed")
    => (~is_running /\ ~is_active)

\* the step by which a start() of a stopped controller returns
StartReturns == mpc \in {"start71", "start76"} /\ mpc' = "idle"
SpawnFailed == tpc[listener_thread] = "new"

\* C9 as stated: start() of a stopped controller returns False exactly when
\* the spawn failed, then with is_running and is_active() false, and
\* otherwise returns True with is_running true.
C9_ReturnsTrueWithRunning ==
  [][StartReturns
       => /\ (lastRet' = "False") <=> SpawnFailed'
          /\ SpawnFailed' => (~is_running' /\ ~is_active')
          /\ ~SpawnFailed' => (lastRet' = "True" /\ is_running')]_vars

\* C9, amended: start() of a stopped controller returns False exactly when
\* the spawn failed, then with is_running and is_active() false; otherwise
\* it returns True after line 73 has set is_running, which is still true at
\* the return unless an IPC thread has failed in between.
C9_StartResult ==
  [][StartReturns
       => /\ (lastRet' = "False") <=> SpawnFailed'
          /\ SpawnFailed' => (~is_running' /\ ~is_active')
          /\ ~SpawnFailed' => /\ lastRet' = "True"
                              /\ is_running' \/ \E t \in Threads : Failed(t)']_vars

\* start() has returned True while its IPC thread has not yet tried to connect
C9_Witness ==
  /\ mpc = "idle" /\ lastOp = "start" /\ lastRet = "True" /\ ~entryRunning
  /\ is_running /\ tpc[listener_thread] = "l51"

Invokes(t) == tpc[t] = "t28" /\ tpc'[t] # "t28"

\* C11: when set_callback(h) was the last handler assignment before a start()
\* and no set_callback was called since, every Trigger() processed by the
\* service of the thread that start() created invokes h, the callback field.
C11_TriggerInvokesHandlerSetBeforeStart ==
  [][\A t \in Threads :
       (Invokes(t) /\ due[t] = "set")
         => (nStarted' = nStarted + 1 /\ lastInv'[2] = callback /\ callback \in Handlers)]_vars

\* a handler set by set_callback before start() has been invoked by a Trigger()
C11_Witness ==
  \E t \in Threads : due[t] = "set" /\ tpc[t] = "loop" /\ nStarted >= 1
                     /\ lastInv[2] = callback /\ lastOp = "start"

\* C12: a Trigger() processed while the service's handler is unset returns to
\* the loop in that step, starts no thread and no handler, and changes no
\* field of the service or of the controller.
C12_TriggerWithoutHandlerNoEffect ==
  [][\A t \in Threads :
       (TriggerCheck(t) /\ handler[t] = None)
         => (tpc'[t] = "loop"
             /\ UNCHANGED <<ctrl, ipc, nTrigReg, nStarted, nRunning, lastInv>>)]_vars

\* a Trigger() has been processed by a service without handler
C12_Witness ==
  /\ nTrig >= 1 /\ nTrigReg = 0 /\ nStarted = 0
  /\ \E t \in Threads : tpc[t] = "loop" /\ published[t] /\ handler[t] = None

\* C13: stop() called while is_running is false returns in that one step,
\* quits no loop, joins no thread and changes no field of the controller;
\* so a stop() that follows a stop() which left is_running false changes
\* nothing.
C13_StopWhileStoppedNoEffect ==
  [][(Stop84 /\ ~is_running)
       => (mpc' = "idle" /\ lastOp' = "stop" /\ lastRet' = "None"
           /\ UNCHANGED <<ctrl, ipc, work>>)]_vars

\* a second stop() in a row has returned, after a first one that stopped a
\* started controller
C13_Witness ==
  /\ mpc = "idle" /\ lastOp = "stop" /\ ~entryRunning /\ ~is_running
  /\ nCalls >= 3 /\ nThreads = 1 /\ tpc[1] = "dead" /\ startOK /\ ~scDone
  /\ primary_key = "<f12>"

\* C14: update_shortcut(k) returns True in every state in which it is
\* called, get_status()['primary_key'] is k afterwards, and is_running, the
\* IPC threads, their loops, the services and the handlers are unchanged.
C14_UpdateShortcutOnlyLabel ==
  [][\A k \in Keys :
       update_shortcut(k)
         => (lastRet' = "True" /\ get_status'.primary_key = k
             /\ UNCHANGED <<callback, dbus_service, dbus_loop, listener_thread,
                            is_running, ipc, work>>)]_vars

\* update_shortcut("SUPER+D") has returned True on a running controller
C14_Witness ==
  /\ mpc = "idle" /\ lastOp = "update_shortcut" /\ lastRet = "True"
  /\ is_running /\ is_active /\ get_status.primary_key = "SUPER+D"

\* C15: after the first start() has spawned its IPC thread, unless that
\* thread fails to connect or publish or a stop() is called, start() returns
\* True, is_active() becomes true, and once true it stays true.
C15_StartBecomesActive ==
  /\ [](( mpc = "idle" /\ lastOp = "start" /\ nThreads = 1 /\ tpc[1] # "new")
          => lastRet = "True")
  /\ (tpc[1] = "l51") ~> (is_active \/ Failed(1) \/ stopCalled)
  /\ [][(is_active /\ listener_thread = 1 /\ ~Failed(1)' /\ ~stopCalled')
          => is_active']_vars

\* the first start() has returned True, its thread has published and runs
\* its loop, no stop() was called, and is_active() is true
C15_Witness ==
  /\ mpc = "idle" /\ lastOp = "start" /\ lastRet = "True" /\ nThreads = 1
  /\ ~stopCalled /\ tpc[1] = "loop" /\ published[1] /\ is_active

\* the bus is available and every thread could be spawned
NoFailure == \A u \in Threads : ~Failed(u) /\ tpc[u] # "new"

\* a start() that follows start(); stop() has just spawned its thread, every
\* stop() so far having seen its IPC thread ended
Restarting ==
  /\ listener_thread >= 2 /\ mpc = "start73"
  /\ ~dirty /\ NoFailure

\* every thread spawned by a start() after the first has published its
\* service, or has failed on the bus
RestartedPublished ==
  \A t \in Threads :
    (t >= 2 /\ tpc[t] \notin {"unborn", "new"}) => (published[t] \/ Failed(t))

\* C16: after start(); stop(); start(), every stop() having seen its thread
\* ended, the thread of the second start() publishes its service again and
\* is_active() becomes true, unless that thread fails on the bus; and a
\* Trigger() it processes invokes the callback field, no set_callback having
\* been called since that start().
C16_RestartBringsServiceBack ==
  /\ Restarting ~> RestartedPublished
  /\ Restarting ~> (is_active \/ Failed(listener_thread))
  /\ [][\A t \in Threads :
          (Invokes(t) /\ t >= 2 /\ due[t] # "none")
            => (lastBy' = t /\ lastInv'[2] = callback)]_vars

\* start(); stop(); start() done: thread 1 has ended, thread 2 has published,
\* is_active() is true and a Trigger() on thread 2 has invoked the callback
C16_Witness ==
  /\ mpc = "idle" /\ lastOp = "start" /\ lastRet = "True" /\ ~dirty /\ NoFailure
  /\ nThreads = 2 /\ listener_thread = 2 /\ tpc[1] = "dead"
  /\ published[2] /\ tpc[2] = "loop" /\ is_active
  /\ lastBy = 2 /\ lastInv[2] = callback

\* C17: at most one IPC thread is alive and at most one event loop is
\* executing, after any sequence of start() and stop() calls.
C17_AtMostOneIpcThread ==
  /\ Cardinality({t \in Threads : Alive(t)}) <= 1
  /\ Cardinality({t \in Threads : tpc[t] \in LoopPcs}) <= 1

\* C18: start() sets is_running before it spawns the IPC thread, so no IPC
\* thread has been started, let alone has written is_running = False, while
\* the start() that created it has yet to write is_running = True.
C18_RunningSetBeforeSpawn ==
  mpc = "start73" => tpc[listener_thread] \in {"unborn", "new"}

\* C19: once a stop() of a running controller has returned (without fault),
\* the IPC thread of the preceding start() is not executing an event loop
\* that has not been told to quit, in whatever state stop() found the thread.
C19_StoppedThreadRunsNoLoop ==
  (mpc = "idle" /\ lastOp = "stop" /\ entryRunning /\ ~stopFault)
    => ~(tpc[listener_thread] \in LoopPcs /\ loopFlag[listener_thread])

\* C20: when stop() calls quit() on dbus_loop, that loop is the loop of the
\* IPC thread created by the most recent start().
C20_StopQuitsCurrentLoop ==
  mpc = "stop89" => dbus_loop = listener_thread
====
